---- MODULE Spec2Model ----
(***************************************************************************)
(* External sort of newline-delimited byte records (sort.py): main() and   *)
(* sort(input_stream, output_stream, temp_dir).                            *)
(*                                                                         *)
(* A byte is a natural number, a byte string a sequence of bytes.  The     *)
(* input is a byte stream; iterating it yields lines, each ending with NL  *)
(* except possibly the last.  A segment file holds the bytes written to    *)
(* it (gzip is lossless, so the file is modelled by its decompressed       *)
(* bytes) and reading it back splits those bytes into lines again.         *)
(* A segment path temp_dir / '{:06d}.gz'.format(n) is modelled by n.       *)
(* Every I/O call may fail; the environment injects at most MaxFaults      *)
(* failures in one run.                                                    *)
(***************************************************************************)
EXTENDS Naturals, Sequences, FiniteSets, TLC

\* ---- bounds of the model ------------------------------------------------
MaxInputLen == 5
MaxThreshold == 2
MaxFaults == 2

\* ---- bytes ----------------------------------------------------------------
\* The delimiter b'\n'.
NL == 10

\* The bytes the inputs are made of: one below the delimiter (a TAB), the
\* delimiter, and one above it (the letter b).
Byte == {NL - 1, NL, 98}

VARIABLES
    input,              \* the bytes of input_stream
    inpos,              \* index of the next unread byte of input_stream
    threshold,          \* the chunk threshold (the literal of line 34)
    chunk,              \* list of lines being accumulated
    temp_file_counter,  \* next value of count()
    temp_files,         \* list of registered segment paths
    disk,               \* path -> bytes of the file, for the files that exist
    open_files,         \* list of segment readers [path, pos, closed]
    heap,               \* heapq.merge's entries [value, order]
    output,             \* bytes written to output_stream
    flushed,            \* output_stream.flush() was called and returned
    pc,                 \* position of the control flow
    error,              \* the exception in flight ("none" when there is none)
    ci,                 \* index in temp_files of the cleanup loop
    unlinked,           \* paths on which p.unlink() was called, in order
    logged,             \* paths whose unlink failure was logged, in order
    result,             \* how sort() ended: "none", "ok" or the exception
    tmpdir,             \* "exists", "removed" or "left" (removal failed)
    main_result,        \* how main() ended: "none", "ok" or the exception
    faults              \* number of failures injected so far

vars == <<input, inpos, threshold, chunk, temp_file_counter, temp_files, disk,
          open_files, heap, output, flushed, pc, error, ci, unlinked, logged,
          result, tmpdir, main_result, faults>>

\* ---- byte strings -----------------------------------------------------------

\* bytes.__lt__ / __le__: lexicographic comparison of two byte strings.
RECURSIVE BytesLess(_, _)
BytesLess(a, b) ==
    IF b = <<>> THEN FALSE
    ELSE IF a = <<>> THEN TRUE
    ELSE IF a[1] # b[1] THEN a[1] < b[1]
    ELSE BytesLess(Tail(a), Tail(b))

BytesLeq(a, b) == a = b \/ BytesLess(a, b)

\* The assertion compiled away: every line passes.
EndsWithNLUnchecked(line) == TRUE

\* bytes.endswith(b'\n')
EndsWithNL(line) == line # <<>> /\ line[Len(line)] = NL

\* Index of the last byte of the line that starts at pos (pos <= Len(s)):
\* the first NL at or after pos, or the end of the stream when there is none.
LineEnd(s, pos) ==
    IF \E i \in pos..Len(s) : s[i] = NL
    THEN CHOOSE i \in pos..Len(s) : s[i] = NL /\ \A j \in pos..(i - 1) : s[j] # NL
    ELSE Len(s)

\* One step of iterating a binary stream: the next line, delimiter included.
ReadLine(s, pos) == SubSeq(s, pos, LineEnd(s, pos))

\* All the lines of a byte stream from pos on.
RECURSIVE LinesFrom(_, _)
LinesFrom(s, pos) ==
    IF pos > Len(s) THEN <<>>
    ELSE <<ReadLine(s, pos)>> \o LinesFrom(s, LineEnd(s, pos) + 1)

Lines(s) == LinesFrom(s, 1)

\* Writing a chunk with a line equal to the one before it skipped.
RECURSIVE ConcatUnique(_)
ConcatUnique(ls) ==
    IF ls = <<>> THEN <<>>
    ELSE IF Len(ls) >= 2 /\ ls[1] = ls[2] THEN ConcatUnique(Tail(ls))
    ELSE Head(ls) \o ConcatUnique(Tail(ls))

\* What "for line in chunk: f.write(line)" leaves in the file.
RECURSIVE Concat(_)
Concat(ls) == IF ls = <<>> THEN <<>> ELSE Head(ls) \o Concat(Tail(ls))

\* ---- chunk.sort() -----------------------------------------------------------

RECURSIVE InsertSorted(_, _)
InsertSorted(x, s) ==
    IF s = <<>> THEN <<x>>
    ELSE IF BytesLess(x, Head(s)) THEN <<x>> \o s
    ELSE <<Head(s)>> \o InsertSorted(x, Tail(s))

\* list.sort() on a list of bytes objects: ascending by bytes comparison of
\* the whole line (delimiter included), stable.
RECURSIVE SortChunk(_)
SortChunk(c) ==
    IF c = <<>> THEN <<>>
    ELSE InsertSorted(c[Len(c)], SortChunk(SubSeq(c, 1, Len(c) - 1)))

\* The comparison off by one: the loop breaks one line late.
ChunkFullLate(c) == Len(c) > threshold

\* "if len(chunk) >= 1000000: break", with the literal as the threshold.
ChunkFull(c) == Len(c) >= threshold

\* The empty chunk not recognised: it is spilled like any other.
ChunkEmptyNever(c) == FALSE

\* "if not chunk: break"
ChunkEmpty(c) == c = <<>>

\* ---- heapq.merge ------------------------------------------------------------

\* The comparison of the entries reversed: the heap yields its greatest entry.
EntryGreater(a, b) ==
    \/ BytesLess(b.value, a.value)
    \/ a.value = b.value /\ a.order > b.order

\* [value, order, next] lists compare by value first, then by order.
EntryLess(a, b) ==
    \/ BytesLess(a.value, b.value)
    \/ a.value = b.value /\ a.order < b.order

\* Ties between equal values broken towards the highest order.
HeapMinLastOrder(h) ==
    CHOOSE e \in h : \A x \in h :
        \/ x = e
        \/ BytesLess(e.value, x.value)
        \/ e.value = x.value /\ e.order > x.order

\* h[0] of the heap: the least entry.
HeapMin(h) == CHOOSE e \in h : \A x \in h : x = e \/ EntryLess(e, x)

\* ---- the environment --------------------------------------------------------

CanFail == faults < MaxFaults

AllInputs == UNION {[1..n -> Byte] : n \in 0..MaxInputLen}

Init ==
    /\ input \in AllInputs
    /\ threshold \in 1..MaxThreshold
    /\ inpos = 1
    /\ chunk = <<>>
    /\ temp_file_counter = 0
    /\ temp_files = <<>>
    /\ disk = <<>>
    /\ open_files = <<>>
    /\ heap = {}
    /\ output = <<>>
    /\ flushed = FALSE
    /\ pc = "accumulate"
    /\ error = "none"
    /\ ci = 1
    /\ unlinked = <<>>
    /\ logged = <<>>
    /\ result = "none"
    /\ tmpdir = "exists"
    /\ main_result = "none"
    /\ faults = 0

\* The exception leaves sort() with the cleanup loop skipped (no "finally").
RaiseNoCleanup(kind) ==
    /\ error' = kind
    /\ pc' = "cleanup"
    /\ ci' = Len(temp_files) + 1

\* An exception raised inside the outer try and outside the inner one: control
\* goes to the outer "finally".
RaiseToCleanup(kind) ==
    /\ error' = kind
    /\ pc' = "cleanup"
    /\ ci' = 1

\* ---- phase one: accumulate, sort, spill -------------------------------------

\* One iteration of "for line in input_stream" that yields a line.
AccumulateLine ==
    /\ pc = "accumulate"
    /\ inpos <= Len(input)
    /\ LET line == ReadLine(input, inpos) IN
         IF ~EndsWithNL(line)
         THEN \* assert line.endswith(b'\n') fails
              /\ RaiseToCleanup("AssertionError")
              /\ inpos' = LineEnd(input, inpos) + 1
              /\ UNCHANGED chunk
         ELSE /\ chunk' = Append(chunk, line)
              /\ inpos' = LineEnd(input, inpos) + 1
              /\ pc' = IF ChunkFull(chunk') THEN "spill" ELSE "accumulate"
              /\ UNCHANGED <<error, ci>>
    /\ UNCHANGED <<input, threshold, temp_file_counter, temp_files, disk,
                   open_files, heap, output, flushed, unlinked, logged, result,
                   tmpdir, main_result, faults>>

\* Reading the input source raises.
AccumulateReadError ==
    /\ pc = "accumulate"
    /\ CanFail
    /\ faults' = faults + 1
    /\ RaiseToCleanup("InputError")
    /\ UNCHANGED <<input, inpos, threshold, chunk, temp_file_counter,
                   temp_files, disk, open_files, heap, output, flushed,
                   unlinked, logged, result, tmpdir, main_result>>

\* The input is exhausted: the for loop ends; "if not chunk: break".
AccumulateEnd ==
    /\ pc = "accumulate"
    /\ inpos > Len(input)
    /\ pc' = IF ChunkEmpty(chunk) THEN "open" ELSE "spill"
    /\ UNCHANGED <<input, inpos, threshold, chunk, temp_file_counter,
                   temp_files, disk, open_files, heap, output, flushed, error,
                   ci, unlinked, logged, result, tmpdir, main_result, faults>>

\* chunk.sort(); the next path is computed and appended to temp_files.
RegisterSegment ==
    /\ pc = "spill"
    /\ chunk' = SortChunk(chunk)
    /\ temp_files' = Append(temp_files, temp_file_counter)
    /\ temp_file_counter' = temp_file_counter + 1
    /\ pc' = "write"
    /\ UNCHANGED <<input, inpos, threshold, disk, open_files, heap, output,
                   flushed, error, ci, unlinked, logged, result, tmpdir,
                   main_result, faults>>

\* The segment is written and the merge starts at once, the outer loop left
\* after its first pass.
WriteSegmentThenMerge ==
    /\ pc = "write"
    /\ disk' = (temp_files[Len(temp_files)] :> Concat(chunk)) @@ disk
    /\ chunk' = <<>>
    /\ pc' = "open"
    /\ UNCHANGED <<input, inpos, threshold, temp_file_counter, temp_files,
                   open_files, heap, output, flushed, error, ci, unlinked,
                   logged, result, tmpdir, main_result, faults>>

\* with gzip.open(path, 'wb') as f: for line in chunk: f.write(line)
WriteSegment ==
    /\ pc = "write"
    /\ disk' = (temp_files[Len(temp_files)] :> Concat(chunk)) @@ disk
    /\ chunk' = <<>>
    /\ pc' = "accumulate"
    /\ UNCHANGED <<input, inpos, threshold, temp_file_counter, temp_files,
                   open_files, heap, output, flushed, error, ci, unlinked,
                   logged, result, tmpdir, main_result, faults>>

\* gzip.open for writing raises: no file is created.
WriteSegmentOpenError ==
    /\ pc = "write"
    /\ CanFail
    /\ faults' = faults + 1
    /\ RaiseToCleanup("SegmentWriteError")
    /\ UNCHANGED <<input, inpos, threshold, chunk, temp_file_counter,
                   temp_files, disk, open_files, heap, output, flushed,
                   unlinked, logged, result, tmpdir, main_result>>

\* The path is taken off temp_files again when the write raises.
WriteSegmentErrorUntracked ==
    /\ pc = "write"
    /\ CanFail
    /\ faults' = faults + 1
    /\ \E n \in 0..Len(chunk) :
         disk' = (temp_files[Len(temp_files)] :> Concat(SubSeq(chunk, 1, n))) @@ disk
    /\ temp_files' = SubSeq(temp_files, 1, Len(temp_files) - 1)
    /\ RaiseToCleanup("SegmentWriteError")
    /\ UNCHANGED <<input, inpos, threshold, chunk, temp_file_counter,
                   open_files, heap, output, flushed, unlinked,
                   logged, result, tmpdir, main_result>>

\* A write (or the closing flush) of the segment raises after n lines: the
\* file exists and holds the lines written so far.
WriteSegmentError ==
    /\ pc = "write"
    /\ CanFail
    /\ faults' = faults + 1
    /\ \E n \in 0..Len(chunk) :
         disk' = (temp_files[Len(temp_files)] :> Concat(SubSeq(chunk, 1, n))) @@ disk
    /\ RaiseToCleanup("SegmentWriteError")
    /\ UNCHANGED <<input, inpos, threshold, chunk, temp_file_counter,
                   temp_files, open_files, heap, output, flushed, unlinked,
                   logged, result, tmpdir, main_result>>

\* ---- phase two: merge -------------------------------------------------------

AllOpened == Len(open_files) = Len(temp_files)

\* One iteration of "for p in temp_files: open_files.append(gzip.open(p, 'rb'))".
OpenSegment ==
    /\ pc = "open"
    /\ ~AllOpened
    /\ LET p == temp_files[Len(open_files) + 1] IN
         IF p \in DOMAIN disk
         THEN /\ open_files' = Append(open_files,
                                      [path |-> p, pos |-> 1, closed |-> FALSE])
              /\ UNCHANGED <<pc, error, ci>>
         ELSE \* FileNotFoundError
              /\ RaiseToCleanup("SegmentOpenError")
              /\ UNCHANGED open_files
    /\ UNCHANGED <<input, inpos, threshold, chunk, temp_file_counter,
                   temp_files, disk, heap, output, flushed, unlinked, logged,
                   result, tmpdir, main_result, faults>>

\* gzip.open for reading raises.  The loop is outside the inner try, so the
\* readers opened so far are not closed.
OpenSegmentError ==
    /\ pc = "open"
    /\ ~AllOpened
    /\ CanFail
    /\ faults' = faults + 1
    /\ RaiseToCleanup("SegmentOpenError")
    /\ UNCHANGED <<input, inpos, threshold, chunk, temp_file_counter,
                   temp_files, disk, open_files, heap, output, flushed,
                   unlinked, logged, result, tmpdir, main_result>>

\* The bytes of the file reader number i (1-based) reads.
ReaderData(i) == disk[open_files[i].path]

\* Reader i after its next line was read.
Advanced(i) ==
    [open_files EXCEPT ![i].pos = LineEnd(ReaderData(i), open_files[i].pos) + 1]

\* The start of heapq.merge: the first line of every reader that has one is
\* put in the heap as [value, order].
MergeInit ==
    /\ pc = "open"
    /\ AllOpened
    /\ LET nonempty == {i \in 1..Len(open_files) : Len(ReaderData(i)) >= 1} IN
         /\ heap' = {[value |-> ReadLine(ReaderData(i), 1), order |-> i - 1] :
                     i \in nonempty}
         /\ open_files' = [i \in 1..Len(open_files) |->
                             IF i \in nonempty THEN Advanced(i)[i]
                             ELSE open_files[i]]
         /\ pc' = IF nonempty = {} THEN "close" ELSE "merge"
    /\ UNCHANGED <<input, inpos, threshold, chunk, temp_file_counter,
                   temp_files, disk, output, flushed, error, ci, unlinked,
                   logged, result, tmpdir, main_result, faults>>

\* Reading the first line of some reader raises: control goes to the inner
\* "finally".
MergeInitError ==
    /\ pc = "open"
    /\ AllOpened
    /\ open_files # <<>>
    /\ CanFail
    /\ faults' = faults + 1
    /\ error' = "SegmentReadError"
    /\ pc' = "close"
    /\ UNCHANGED <<input, inpos, threshold, chunk, temp_file_counter,
                   temp_files, disk, open_files, heap, output, flushed, ci,
                   unlinked, logged, result, tmpdir, main_result>>

\* The new value pushed while the entry just yielded stays in the heap.
HeapAfterPush(h, e) ==
    LET i == e.order + 1 IN
      IF open_files[i].pos > Len(ReaderData(i))
      THEN h \ {e}
      ELSE h \cup
           {[value |-> ReadLine(ReaderData(i), open_files[i].pos),
             order |-> e.order]}

\* The heap after the reader of entry e was asked for its next line:
\* _heapreplace with the new value, or _heappop on StopIteration.
HeapAfter(h, e) ==
    LET i == e.order + 1 IN
      IF open_files[i].pos > Len(ReaderData(i))
      THEN h \ {e}
      ELSE (h \ {e}) \cup
           {[value |-> ReadLine(ReaderData(i), open_files[i].pos),
             order |-> e.order]}

\* The readers after the reader of entry e was asked for its next line.
ReadersAfter(e) ==
    LET i == e.order + 1 IN
      IF open_files[i].pos > Len(ReaderData(i)) THEN open_files
      ELSE Advanced(i)

\* The merge loop not left when the last reader is exhausted.
MergeStepNoEnd ==
    /\ pc = "merge"
    /\ heap # {}
    /\ LET e == HeapMin(heap) IN
         /\ output' = output \o e.value
         /\ heap' = HeapAfter(heap, e)
         /\ open_files' = ReadersAfter(e)
    /\ UNCHANGED <<input, inpos, threshold, chunk, temp_file_counter,
                   temp_files, disk, flushed, error, ci, unlinked, logged,
                   result, tmpdir, main_result, faults, pc>>

\* One iteration of "for line in heapq_merge(...): output_stream.write(line)":
\* the least entry's value is yielded and written, then its reader advanced.
MergeStep ==
    /\ pc = "merge"
    /\ heap # {}
    /\ LET e == HeapMin(heap) IN
         /\ output' = output \o e.value
         /\ heap' = HeapAfter(heap, e)
         /\ open_files' = ReadersAfter(e)
         /\ pc' = IF heap' = {} THEN "close" ELSE "merge"
    /\ UNCHANGED <<input, inpos, threshold, chunk, temp_file_counter,
                   temp_files, disk, flushed, error, ci, unlinked, logged,
                   result, tmpdir, main_result, faults>>

\* output_stream.write raises.
MergeWriteError ==
    /\ pc = "merge"
    /\ heap # {}
    /\ CanFail
    /\ faults' = faults + 1
    /\ error' = "OutputWriteError"
    /\ pc' = "close"
    /\ UNCHANGED <<input, inpos, threshold, chunk, temp_file_counter,
                   temp_files, disk, open_files, heap, output, flushed, ci,
                   unlinked, logged, result, tmpdir, main_result>>

\* The line is written, then advancing its reader raises.
MergeReadError ==
    /\ pc = "merge"
    /\ heap # {}
    /\ CanFail
    /\ faults' = faults + 1
    /\ output' = output \o HeapMin(heap).value
    /\ error' = "SegmentReadError"
    /\ pc' = "close"
    /\ UNCHANGED <<input, inpos, threshold, chunk, temp_file_counter,
                   temp_files, disk, open_files, heap, flushed, ci, unlinked,
                   logged, result, tmpdir, main_result>>

\* The inner "finally": every reader is closed.
CloseFiles ==
    /\ pc = "close"
    /\ open_files' = [i \in 1..Len(open_files) |->
                        [open_files[i] EXCEPT !.closed = TRUE]]
    /\ pc' = IF error = "none" THEN "flush" ELSE "cleanup"
    /\ ci' = 1
    /\ UNCHANGED <<input, inpos, threshold, chunk, temp_file_counter,
                   temp_files, disk, heap, output, flushed, error, unlinked,
                   logged, result, tmpdir, main_result, faults>>

\* output_stream.flush()
Flush ==
    /\ pc = "flush"
    /\ flushed' = TRUE
    /\ pc' = "cleanup"
    /\ ci' = 1
    /\ UNCHANGED <<input, inpos, threshold, chunk, temp_file_counter,
                   temp_files, disk, open_files, heap, output, error, unlinked,
                   logged, result, tmpdir, main_result, faults>>

FlushError ==
    /\ pc = "flush"
    /\ CanFail
    /\ faults' = faults + 1
    /\ RaiseToCleanup("OutputFlushError")
    /\ UNCHANGED <<input, inpos, threshold, chunk, temp_file_counter,
                   temp_files, disk, open_files, heap, output, flushed,
                   unlinked, logged, result, tmpdir, main_result>>

\* ---- the outer "finally": cleanup -------------------------------------------

\* disk without the file p.
Removed(p) == [q \in DOMAIN disk \ {p} |-> disk[q]]

\* No try/except around unlink: the failure ends the loop and becomes the
\* exception in flight.
UnlinkFailedRaises(p) ==
    /\ error' = "UnlinkError"
    /\ ci' = Len(temp_files) + 1
    /\ UNCHANGED <<pc, logged>>

\* "except Exception as e: logger.exception(...)": the failure is logged and
\* the loop goes on.
UnlinkFailed(p) ==
    /\ logged' = Append(logged, p)
    /\ ci' = ci + 1
    /\ UNCHANGED <<pc, error>>

\* One iteration of "for p in temp_files: p.unlink()" in which the file system
\* does what it is asked.
Unlink ==
    /\ pc = "cleanup"
    /\ ci <= Len(temp_files)
    /\ LET p == temp_files[ci] IN
         /\ unlinked' = Append(unlinked, p)
         /\ IF p \in DOMAIN disk
            THEN /\ disk' = Removed(p)
                 /\ ci' = ci + 1
                 /\ UNCHANGED <<pc, error, logged>>
            ELSE \* FileNotFoundError
                 /\ UnlinkFailed(p)
                 /\ UNCHANGED disk
    /\ UNCHANGED <<input, inpos, threshold, chunk, temp_file_counter,
                   temp_files, open_files, heap, output, flushed, result,
                   tmpdir, main_result, faults>>

\* p.unlink() raises on a file that exists: the file stays.
UnlinkError ==
    /\ pc = "cleanup"
    /\ ci <= Len(temp_files)
    /\ temp_files[ci] \in DOMAIN disk
    /\ CanFail
    /\ faults' = faults + 1
    /\ unlinked' = Append(unlinked, temp_files[ci])
    /\ UnlinkFailed(temp_files[ci])
    /\ UNCHANGED <<input, inpos, threshold, chunk, temp_file_counter,
                   temp_files, disk, open_files, heap, output, flushed, result,
                   tmpdir, main_result>>

\* output_stream.flush() moved into the "finally": it runs on every exit.
SortReturnFlushes ==
    /\ pc = "cleanup"
    /\ ci > Len(temp_files)
    /\ result' = IF error = "none" THEN "ok" ELSE error
    /\ flushed' = TRUE
    /\ pc' = "returned"
    /\ UNCHANGED <<input, inpos, threshold, chunk, temp_file_counter,
                   temp_files, disk, open_files, heap, output, error,
                   ci, unlinked, logged, tmpdir, main_result, faults>>

\* The cleanup loop is over: sort() returns, or the exception in flight
\* reaches the caller.
SortReturn ==
    /\ pc = "cleanup"
    /\ ci > Len(temp_files)
    /\ result' = IF error = "none" THEN "ok" ELSE error
    /\ pc' = "returned"
    /\ UNCHANGED <<input, inpos, threshold, chunk, temp_file_counter,
                   temp_files, disk, open_files, heap, output, flushed, error,
                   ci, unlinked, logged, tmpdir, main_result, faults>>

\* ---- main(): the end of "with TemporaryDirectory(...)" ----------------------

\* TemporaryDirectory.__exit__ removes the directory and what is left in it.
ExitTempDir ==
    /\ pc = "returned"
    /\ tmpdir' = "removed"
    /\ disk' = <<>>
    /\ main_result' = result
    /\ pc' = "exited"
    /\ UNCHANGED <<input, inpos, threshold, chunk, temp_file_counter,
                   temp_files, open_files, heap, output, flushed, error, ci,
                   unlinked, logged, result, faults>>

\* Removing the directory raises: nothing in main() catches it.
ExitTempDirError ==
    /\ pc = "returned"
    /\ CanFail
    /\ faults' = faults + 1
    /\ tmpdir' = "left"
    /\ main_result' = "TempDirError"
    /\ pc' = "exited"
    /\ UNCHANGED <<input, inpos, threshold, chunk, temp_file_counter,
                   temp_files, disk, open_files, heap, output, flushed, error,
                   ci, unlinked, logged, result>>

Next ==
    \/ AccumulateLine
    \/ AccumulateReadError
    \/ AccumulateEnd
    \/ RegisterSegment
    \/ WriteSegment
    \/ WriteSegmentOpenError
    \/ WriteSegmentError
    \/ OpenSegment
    \/ OpenSegmentError
    \/ MergeInit
    \/ MergeInitError
    \/ MergeStep
    \/ MergeWriteError
    \/ MergeReadError
    \/ CloseFiles
    \/ Flush
    \/ FlushError
    \/ Unlink
    \/ UnlinkError
    \/ SortReturn
    \/ ExitTempDir
    \/ ExitTempDirError

Spec == Init /\ [][Next]_vars

\* The steps of a run in which no I/O operation fails.
NextNoFault ==
    \/ AccumulateLine
    \/ AccumulateEnd
    \/ RegisterSegment
    \/ WriteSegment
    \/ OpenSegment
    \/ MergeInit
    \/ MergeStep
    \/ CloseFiles
    \/ Flush
    \/ Unlink
    \/ SortReturn
    \/ ExitTempDir

\* A run without I/O failures of the sequential program: it takes its next
\* step as long as it has one.
LiveSpec == Init /\ [][NextNoFault]_vars /\ WF_vars(NextNoFault)

\* ---- vocabulary of the properties -------------------------------------------

Range(f) == {f[i] : i \in DOMAIN f}

\* Number of times r occurs in the list ls.
Count(ls, r) == Cardinality({i \in DOMAIN ls : ls[i] = r})

\* A record without its delimiter.
Content(r) == SubSeq(r, 1, Len(r) - 1)

\* sort() is over (it returned or its exception reached main).
SortEnded == pc \in {"returned", "exited"}

\* The input ends with a non-empty fragment that has no delimiter.
HasFragment == input # <<>> /\ input[Len(input)] # NL

\* The complete (delimiter-terminated) records of the input.
InputRecords == SelectSeq(Lines(input), EndsWithNL)

\* The lines held by the segment files that exist.
DiskLines(p) == Lines(disk[p])

\* C1: when sort() returns successfully, every record occurs in the output
\* exactly as many times as it occurs in the input.
C1_OutputIsInputMultiset ==
    (SortEnded /\ result = "ok") =>
        \A r \in Range(Lines(input)) \cup Range(Lines(output)) :
            Count(Lines(output), r) = Count(Lines(input), r)

\* A successful call that merged two segments and had a duplicated record.
C1_Witness ==
    /\ pc = "returned"
    /\ result = "ok"
    /\ Len(temp_files) >= 2
    /\ \E r \in Range(Lines(input)) : Count(Lines(output), r) >= 2

\* C2: in the output of a successful call, the content (delimiter removed) of
\* every record is byte-wise less than or equal to the content of the next.
C2_OutputOrderedByContent ==
    (SortEnded /\ result = "ok") =>
        \A i \in 1..(Len(Lines(output)) - 1) :
            BytesLeq(Content(Lines(output)[i]), Content(Lines(output)[i + 1]))

\* C3: when sort() ends, on any path, unlink was called on every registered
\* segment path; a call that ends with an exception in flight fails; and when
\* no deletion failed no segment file remains.
C3_CleanupOnEveryExit ==
    (pc = "returned") =>
        /\ unlinked = temp_files
        /\ (error # "none" => result = error /\ result # "ok")
        /\ (logged = <<>> => DOMAIN disk = {})

\* Writing the second segment failed: the call failed and unlink was called
\* on the first segment's path (and on the second's).
C3_Witness ==
    /\ pc = "returned"
    /\ result = "SegmentWriteError"
    /\ temp_files = <<0, 1>>
    /\ unlinked = <<0, 1>>
    /\ 0 \notin DOMAIN disk

\* C4: a failed deletion is logged and the remaining paths are still tried; a
\* call whose merge and flush succeeded returns successfully; a call that
\* fails, fails with the error that triggered the cleanup, never with the
\* deletion error.
C4_DeletionFailureContained ==
    (pc = "returned") =>
        /\ Len(unlinked) = Len(temp_files)
        /\ \A i \in 1..Len(temp_files) :
             temp_files[i] \in DOMAIN disk => temp_files[i] \in Range(logged)
        /\ (flushed => result = "ok")
        /\ result \in {"ok", "AssertionError", "InputError", "SegmentWriteError",
                       "SegmentOpenError", "SegmentReadError",
                       "OutputWriteError", "OutputFlushError"}

\* The first of two deletions failed, the second was still made, and the
\* call returned successfully.
C4_Witness ==
    /\ pc = "returned"
    /\ result = "ok"
    /\ Len(temp_files) = 2
    /\ logged = <<0>>
    /\ unlinked = <<0, 1>>
    /\ DOMAIN disk = {0}

\* A deletion failed during the cleanup after an error, and the caller still
\* gets that error.
C4_WitnessAfterError ==
    /\ pc = "returned"
    /\ result = "OutputWriteError"
    /\ logged # <<>>

\* C5: the temporary directory is removed only after unlink was called on
\* every registered path, and a failure to remove it does not make an
\* invocation fail whose sort() succeeded.
C5_TempDirRemovalNonFatal ==
    /\ (tmpdir # "exists" => unlinked = temp_files)
    /\ (pc = "exited" /\ result = "ok" => main_result = "ok")

\* C6: with a trailing fragment that has no delimiter, sort() never returns
\* successfully, and the fragment is not written anywhere, with or without a
\* delimiter: every line of the chunk, of the segments and of the output is
\* delimiter-terminated and occurs there no more often than among the
\* complete records of the input.
C6_FragmentIsFatal ==
    HasFragment =>
        /\ result # "ok"
        /\ main_result # "ok"
        /\ (SortEnded => result # "none")
        /\ \A l \in Range(chunk) \cup Range(Lines(output)) : EndsWithNL(l)
        /\ \A p \in DOMAIN disk : \A l \in Range(DiskLines(p)) : EndsWithNL(l)
        /\ \A r \in Range(Lines(output)) :
             Count(Lines(output), r) <= Count(InputRecords, r)
        /\ \A p \in DOMAIN disk : \A r \in Range(DiskLines(p)) :
             Count(DiskLines(p), r) <= Count(InputRecords, r)

\* The assertion failed on the fragment after a segment had been written.
C6_Witness ==
    /\ HasFragment
    /\ pc = "returned"
    /\ result = "AssertionError"
    /\ Len(temp_files) >= 1
    /\ faults = 0

\* C7: the chunk never holds more than T records; when phase one ends without
\* error there are ceil(N/T) segments, each of 1 to T records, and all but
\* the last of exactly T.
C7_SegmentCount ==
    /\ Len(chunk) <= threshold
    /\ (pc \in {"spill", "write"} => Len(chunk) >= 1)
    /\ (pc = "open" =>
          /\ Len(temp_files) =
               (Len(Lines(input)) + threshold - 1) \div threshold
          /\ \A i \in 1..Len(temp_files) :
               /\ temp_files[i] \in DOMAIN disk
               /\ Len(DiskLines(temp_files[i])) >= 1
               /\ Len(DiskLines(temp_files[i])) <= threshold
               /\ (i < Len(temp_files) =>
                     Len(DiskLines(temp_files[i])) = threshold))

\* T + 1 records gave two segments, the last one short.
C7_Witness ==
    /\ pc = "open"
    /\ threshold >= 2
    /\ Len(Lines(input)) = threshold + 1
    /\ Len(temp_files) = 2
    /\ Len(DiskLines(1)) = 1

\* C8 as stated: at every moment the records held in memory (the chunk, or
\* the merge frontier) number at most the chunk threshold.
C8_MemoryBoundedByThreshold ==
    /\ Len(chunk) <= threshold
    /\ Cardinality(heap) <= threshold

\* C8 as amended: the chunk holds at most T records and is empty during the
\* merge; the merge frontier holds at most one record per segment.
C8_MemoryBoundedBySegments ==
    /\ Len(chunk) <= threshold
    /\ Cardinality(heap) <= Len(temp_files)
    /\ (heap # {} => chunk = <<>>)
    /\ \A x \in heap : \A y \in heap : x.order = y.order => x = y

\* The frontier holds more records than the threshold.
C8_Witness ==
    /\ pc = "merge"
    /\ Cardinality(heap) > threshold
    /\ Cardinality(heap) = Len(temp_files)

C10_EmptyInput ==
    (input = <<>>) =>
        /\ output = <<>>
        /\ temp_files = <<>>
        /\ temp_file_counter = 0
        /\ DOMAIN disk = {}
        /\ open_files = <<>>
        /\ heap = {}
        /\ unlinked = <<>>
        /\ (SortEnded => result \in {"ok", "InputError", "OutputFlushError"})
        /\ (SortEnded /\ faults = 0 => result = "ok" /\ flushed)

\* The call on an empty input returned successfully.
C10_Witness ==
    /\ input = <<>>
    /\ pc = "returned"
    /\ result = "ok"
    /\ flushed

\* The records of ls are in ascending order of content (delimiter removed).
ContentSorted(ls) ==
    \A i \in 1..(Len(ls) - 1) : BytesLeq(Content(ls[i]), Content(ls[i + 1]))

\* C11: for an input that is already in ascending order under the record
\* ordering (content, delimiter removed), a successful call writes exactly
\* the input, whatever the threshold.
C11_SortedInputUnchanged ==
    (SortEnded /\ result = "ok" /\ ContentSorted(Lines(input))) =>
        output = input

\* C12: nothing is opened for reading and nothing is written to the output
\* before the input is exhausted and the last chunk is spilled (every
\* registered segment then exists); once a segment is opened for reading no
\* input is read, no path is registered and no segment file is created or
\* changed.
C12_PhaseOneBeforePhaseTwo ==
    /\ []((open_files # <<>> \/ output # <<>>) =>
            /\ inpos > Len(input)
            /\ chunk = <<>>
            /\ pc \notin {"accumulate", "spill", "write"}
            /\ temp_file_counter = Len(temp_files)
            /\ (pc \in {"open", "merge"} =>
                  \A i \in 1..Len(temp_files) : temp_files[i] \in DOMAIN disk))
    /\ [][open_files # <<>> =>
            /\ inpos' = inpos
            /\ chunk' = chunk
            /\ temp_files' = temp_files
            /\ \A p \in DOMAIN disk' : p \in DOMAIN disk /\ disk'[p] = disk[p]]_vars

\* The merge of two segments is under way and has written a record.
C12_Witness ==
    /\ pc = "merge"
    /\ Len(temp_files) >= 2
    /\ Len(open_files) = Len(temp_files)
    /\ output # <<>>

\* C13: every segment file that exists, whole or partial, has its path in
\* temp_files; the path of the segment about to be written is registered
\* before its file exists; after a failed open or write of segment n the
\* path n is still registered.  Paths are numbered 0, 1, ... in order.
C13_FilesAreTracked ==
    /\ DOMAIN disk \subseteq Range(temp_files)
    /\ \A i \in 1..Len(temp_files) : temp_files[i] = i - 1
    /\ (pc = "write" =>
          /\ temp_files # <<>>
          /\ temp_files[Len(temp_files)] = temp_file_counter - 1
          /\ temp_files[Len(temp_files)] \notin DOMAIN disk)
    /\ (error = "SegmentWriteError" =>
          /\ temp_files # <<>>
          /\ temp_files[Len(temp_files)] = temp_file_counter - 1)

\* The write of the second segment failed half-way: its partial file exists
\* and its path is registered when the cleanup starts.
C13_Witness ==
    /\ pc = "cleanup"
    /\ ci = 1
    /\ error = "SegmentWriteError"
    /\ temp_files = <<0, 1>>
    /\ DOMAIN disk = {0, 1}
    /\ Len(chunk) = 2
    /\ Len(DiskLines(1)) = 1

\* C14: when sort() ends, on any path, every segment reader that was opened
\* has been closed.
C14_ReadersClosedAtExit ==
    SortEnded => \A i \in 1..Len(open_files) : open_files[i].closed

\* The i-th consecutive run of at most threshold records of the input.
InputRun(i) ==
    SubSeq(Lines(input), (i - 1) * threshold + 1,
           IF i * threshold <= Len(Lines(input)) THEN i * threshold
           ELSE Len(Lines(input)))

\* ls and ms hold the same records the same number of times.
SameRecords(ls, ms) ==
    \A r \in Range(ls) \cup Range(ms) : Count(ls, r) = Count(ms, r)

\* Segment number i (1-based) holds exactly the records of the i-th run.
SegmentHoldsRun(i) ==
    /\ temp_files[i] \in DOMAIN disk
    /\ SameRecords(DiskLines(temp_files[i]), InputRun(i))

\* All the segments' lines, in segment order.
RECURSIVE SegmentLines(_)
SegmentLines(k) ==
    IF k = 0 THEN <<>> ELSE SegmentLines(k - 1) \o DiskLines(temp_files[k])

\* C15: when phase one has ended without error, every segment holds its
\* records in ascending order (of content, the record ordering), holds
\* exactly the records of its chunk, the chunks being the consecutive runs
\* of the input, and all segments together hold the records of the input.
C15_SegmentsSortedRuns ==
    (pc = "open") =>
        /\ \A i \in 1..Len(temp_files) :
             /\ SegmentHoldsRun(i)
             /\ ContentSorted(DiskLines(temp_files[i]))
        /\ SameRecords(SegmentLines(Len(temp_files)), Lines(input))

\* C16: a call in which no I/O operation fails eventually returns, after the
\* cleanup of every segment, and successfully unless the input is malformed;
\* the spill loop is left only with an empty chunk at the end of the input,
\* which registers no segment, and the merge is left only when every reader
\* is exhausted.
C16_Terminates ==
    /\ <>(/\ pc = "returned"
          /\ unlinked = temp_files
          /\ (HasFragment \/ (result = "ok" /\ flushed)))
    /\ [](pc = "open" =>
            /\ inpos > Len(input)
            /\ chunk = <<>>
            /\ Len(temp_files) * threshold >= Len(Lines(input)))
    /\ [](pc \in {"close", "flush"} =>
            /\ heap = {}
            /\ \A i \in 1..Len(open_files) :
                 open_files[i].pos > Len(ReaderData(i)))

\* A failure-free call on three records in two segments has returned.
C16_Witness ==
    /\ pc = "returned"
    /\ result = "ok"
    /\ faults = 0
    /\ Len(Lines(input)) = 3
    /\ Len(temp_files) = 2

\* The call failed in phase one: reading the input raised, a record was
\* malformed, or opening or writing a segment raised.
FailedInPhaseOne ==
    error \in {"InputError", "AssertionError", "SegmentWriteError"}

\* C17: during phase one, and ever after a failure in phase one, nothing has
\* been written to the output sink and it has not been flushed.
C17_PhaseOneFailureLeavesOutput ==
    (FailedInPhaseOne \/ pc \in {"accumulate", "spill", "write"}) =>
        /\ output = <<>>
        /\ ~flushed
        /\ open_files = <<>>

\* The write of the second segment failed and sort() has ended.
C17_Witness ==
    /\ pc = "returned"
    /\ result = "SegmentWriteError"
    /\ Len(temp_files) = 2
    /\ output = <<>>
    /\ ~flushed

\* What a call without failure writes for this input: all its records in
\* ascending order of the code's comparison (the first conjunct of C18 ties
\* this to the successful runs).
FailureFreeOutput == Concat(SortChunk(Lines(input)))

IsPrefix(s, t) == Len(s) <= Len(t) /\ s = SubSeq(t, 1, Len(s))

\* The call failed in phase two: opening or reading a segment raised, or
\* writing the output raised.
FailedInPhaseTwo ==
    error \in {"SegmentOpenError", "SegmentReadError", "OutputWriteError"}

\* C18: a successful call writes FailureFreeOutput, and after a failure in
\* phase two what was written so far is a prefix of it made of whole
\* records: partial output, never reordered or duplicated output.
C18_PartialOutputIsPrefix ==
    /\ (SortEnded /\ result = "ok" => output = FailureFreeOutput)
    /\ (FailedInPhaseTwo =>
          /\ IsPrefix(output, FailureFreeOutput)
          /\ IsPrefix(Lines(output), SortChunk(Lines(input)))
          /\ \A l \in Range(Lines(output)) : EndsWithNL(l))

\* An output write failed in the middle of the merge of two segments: some
\* records were written, not all.
C18_Witness ==
    /\ pc = "returned"
    /\ result = "OutputWriteError"
    /\ Len(temp_files) >= 2
    /\ output # <<>>
    /\ Len(output) < Len(FailureFreeOutput)

====
